---- MODULE Spec2Model ----
(***************************************************************************)
(* Model of the Instagram profile scraper (class SocialMediaScraper and    *)
(* its main program).                                                      *)
(*                                                                         *)
(*   variant = "retry" : src/index.ts (every navigation and read is        *)
(*                       wrapped in retryOperation)                        *)
(*   variant = "login" : src/unnamed/part_000, lines 260-556 (optional     *)
(*                       login, isLoggedIn, parseCount, scrapePost)        *)
(*                                                                         *)
(* Six specifications:                                                     *)
(*   SpecRetry   : retryOperation alone, on every (retries, delay) of the  *)
(*                 bounded input sets, against an arbitrary operation      *)
(*   Spec        : the program as written: one run of main()               *)
(*   SpecLive    : a run of main() on a grid of distinct anchors, where    *)
(*                 every call, page operation and timer that is pending    *)
(*                 eventually settles                                      *)
(*   SpecClient  : the public methods initialize / scrapeUserProfile /     *)
(*                 close called in any order by a caller that awaits each  *)
(*                 call                                                    *)
(*   SpecOverlap : SpecClient with a caller that also calls                *)
(*                 scrapeUserProfile again while an invocation is running  *)
(*   SpecPure    : the pure helpers (parseLikeCount, parseCount,           *)
(*                 extractHashtags, the classifier of determinePostType)   *)
(*                 applied to every input of the bounded input sets        *)
(***************************************************************************)
EXTENDS Integers, Sequences, FiniteSets, TLC

VARIABLES
  variant,        \* which source file is running
  site,           \* what the target profile shows: header texts and posts grid
  browser,        \* this.browser : 0 = null, else the id of a launched browser
  page,           \* this.page    : 0 = null, else the id of the browser owning it
  isLoggedIn,     \* this.isLoggedIn (login variant)
  launched,       \* number of browsers puppeteer.launch has returned so far
  browserOpen,    \* the set of launched browsers that are still open
  closeCalls,     \* browser id -> number of browser.close() invocations on it
  initResult,     \* outcome of the last initialize() call: "none" | "ok" | "failed"
  closes,         \* number of close() calls that have completed
  pc,             \* position of the scrapeUserProfile invocation
  rt,             \* the frame of the retryOperation call in flight
  error,          \* the error scrapeUserProfile threw
  profile,        \* <<>> or <<UserProfile>> : what scrapeUserProfile returned
  bio, followersCount, followingCount,   \* locals of scrapeUserProfile
  postLinks,      \* local postLinks
  postData,       \* local postData of the per-post loop
  posts,          \* local posts
  idx,            \* index of the link the per-post loop is at (1-based)
  outcome,        \* per link index: how processing that link ended
  issued,         \* the kinds of page operation issued by this invocation
  lastOp,         \* the last page operation issued by this invocation
  location,       \* the URL the page is at
  loginChecks,    \* number of login-wall probes issued by this invocation
  awaiting,       \* the page call this invocation is suspended on (NoCall: none)
  inflight,       \* the page calls of this invocation made and not yet settled
  mainPc,         \* position of main()
  calls,          \* number of method calls the free caller has made
  pc2,            \* position of a second invocation overlapping the first
  fn,             \* SpecPure: the helper that was applied ("none": not yet)
  input,          \* SpecPure: the argument
  output          \* SpecPure: what the helper returned

scraperVars == <<browser, page, isLoggedIn, launched, browserOpen, closeCalls, initResult, closes>>
localVars   == <<bio, followersCount, followingCount, postLinks, postData, posts, idx, outcome>>
ghostVars   == <<issued, lastOp, loginChecks, awaiting, inflight>>
scrapeVars  == <<pc, error, profile, localVars, ghostVars, location>>
pureVars == <<fn, input, output>>
\* what no step of main, of the awaiting caller or of the first invocation changes
envVars == <<variant, site, pc2, pureVars>>
vars == <<envVars, scraperVars, rt, scrapeVars, mainPc, calls>>

(***************************************************************************)
(* Bounds of the model and constants of the program                        *)
(***************************************************************************)
MaxRetries == 4        \* largest maxAttempts tried in SpecRetry
MaxGrid == 5           \* largest number of anchors in the posts grid
MaxCalls == 3          \* method calls made by the free caller
MaxClientGrid == 1     \* largest posts grid shown to the free caller
MaxLiveGrid == 5       \* largest posts grid of the runs checked for liveness
MaxLen == 3            \* every string up to this length is given to the pure helpers

DefaultRetries == 3    \* retries = 3
DefaultDelay == 1000   \* delay = 1000
SampleSize == 4        \* slice(0, 4)

Delays == {0, 1, DefaultDelay}
Values == {"v1", "v2"}
ErrorIds == {1, 2}

RECURSIVE Pow2(_)
Pow2(n) == IF n <= 0 THEN 1 ELSE 2 * Pow2(n - 1)

(***************************************************************************)
(* Errors                                                                  *)
(***************************************************************************)
NoError == [kind |-> "undefined", op |-> "none", id |-> 0]
OpError(op, id) == [kind |-> "OpError", op |-> op, id |-> id]
Succeeded(op) == [kind |-> "ok", op |-> op, id |-> 0]
NotInitialized == [kind |-> "NotInitialized", op |-> "none", id |-> 0]
LoginRequired == [kind |-> "LoginRequired", op |-> "none", id |-> 0]

(***************************************************************************)
(* retryOperation (src/index.ts 95-113)                                    *)
(*                                                                         *)
(* rt is the frame of the call: the parameters retries and delay, the      *)
(* locals i and lastError, where the call is (state), and what it returned *)
(* (value) or threw (thrown).  The fields op, delay0, log, waits and       *)
(* produced are history: the operation wrapped, the delay passed in, the   *)
(* outcome of every invocation of the operation, the length of every       *)
(* completed wait, and the value the operation last resolved with.         *)
(***************************************************************************)
Idle == [op |-> "none", retries |-> 0, delay |-> 0, delay0 |-> 0, i |-> 0,
         lastError |-> NoError, state |-> "idle", value |-> "none",
         thrown |-> NoError, log |-> <<>>, waits |-> <<>>, produced |-> "none"]

\* entry of the call: i = 0, then the loop test i < retries; a loop that
\* never runs falls through to `throw lastError`
retryOperation(op, retries, delay) ==
  [Idle EXCEPT !.op = op, !.retries = retries, !.delay = delay, !.delay0 = delay,
               !.state = IF 0 < retries THEN "try" ELSE "thrown"]

\* return await operation();
retryOnSuccess(r, v) == [r EXCEPT !.state = "returned", !.value = v]

\* mutant: the loop test is i <= retries
retryOnError_offByOne(r, e) ==
  LET r1 == [r EXCEPT !.lastError = e]
  IN  IF r.i < r.retries - 1
        THEN [r1 EXCEPT !.state = "sleep"]
        ELSE IF r.i + 1 <= r.retries
               THEN [r1 EXCEPT !.i = r.i + 1]
               ELSE [r1 EXCEPT !.i = r.i + 1, !.state = "thrown", !.thrown = e]

\* mutant: the first error is kept
retryOnError_firstError(r, e) ==
  LET r1 == [r EXCEPT !.lastError = IF r.lastError = NoError THEN e ELSE @]
  IN  IF r.i < r.retries - 1
        THEN [r1 EXCEPT !.state = "sleep"]
        ELSE [r1 EXCEPT !.i = r.i + 1, !.state = "thrown", !.thrown = r1.lastError]

\* catch (error) { lastError = error; if (i < retries - 1) { await sleep ... } }
\* and, when that was the last round, i++, loop exit, throw lastError
retryOnError(r, e) ==
  LET r1 == [r EXCEPT !.lastError = e]
  IN  IF r.i < r.retries - 1
        THEN [r1 EXCEPT !.state = "sleep"]
        ELSE [r1 EXCEPT !.i = r.i + 1, !.state = "thrown", !.thrown = r1.lastError]

\* mutant: the delay is not doubled
retryAfterSleep_constant(r) == [r EXCEPT !.i = r.i + 1, !.state = "try"]

\* the timer fired: delay *= 2; i++; next round
retryAfterSleep(r) ==
  [r EXCEPT !.delay = r.delay * 2, !.i = r.i + 1, !.state = "try"]

(***************************************************************************)
(* Text and numbers                                                        *)
(*                                                                         *)
(* A string is a sequence of one-character strings over the alphabet       *)
(* digits, ".", ",", " ", "#", "_", and the letters below.  A number is an *)
(* exact decimal num * 10^exp (num not a multiple of ten, exp 0 for zero)  *)
(* or NaN; the binary rounding of a product is not represented.            *)
(***************************************************************************)
Digits == {"0", "1", "2", "3", "4", "5", "6", "7", "8", "9"}
DigitVal(c) ==
  CASE c = "0" -> 0 [] c = "1" -> 1 [] c = "2" -> 2 [] c = "3" -> 3 [] c = "4" -> 4
    [] c = "5" -> 5 [] c = "6" -> 6 [] c = "7" -> 7 [] c = "8" -> 8 [] OTHER -> 9
LowerLetters == {"a", "b", "c", "e", "h", "i", "k", "l", "m", "s", "t"}
UpperLetters == {"B", "K", "M"}
toLowerCaseChar(c) == CASE c = "B" -> "b" [] c = "K" -> "k" [] c = "M" -> "m" [] OTHER -> c
toLowerCase(s) == [k \in 1..Len(s) |-> toLowerCaseChar(s[k])]
IsWordChar(c) == c \in Digits \cup LowerLetters \cup UpperLetters \cup {"_"}

NaN == [nan |-> TRUE, num |-> 0, exp |-> 0]
\* the element of a one-element set; { F(x) : x \in {e} } computes e once
Only(S) == CHOOSE x \in S : TRUE
RECURSIVE Norm(_, _)
Norm(n, e) ==
  Only({ IF m = 0 THEN [nan |-> FALSE, num |-> 0, exp |-> 0]
         ELSE IF m % 10 = 0 THEN Norm(m \div 10, e + 1)
         ELSE [nan |-> FALSE, num |-> m, exp |-> e] : m \in {n} })
Num(n) == Norm(n, 0)
RECURSIVE Log10(_)
Log10(f) == IF f < 10 THEN 0 ELSE 1 + Log10(f \div 10)
\* x * f, for f a power of ten
Times(x, f) == Only({ IF y.nan THEN NaN ELSE Norm(y.num, y.exp + Log10(f)) : y \in {x} })

\* the number of digits of s from position k on
RECURSIVE DigitRun(_, _)
DigitRun(s, k) == IF k <= Len(s) /\ s[k] \in Digits THEN 1 + DigitRun(s, k + 1) ELSE 0
\* the value of the digits s[a..b]
RECURSIVE DigitsValue(_, _, _)
DigitsValue(s, a, b) == IF b < a THEN 0 ELSE 10 * DigitsValue(s, a, b - 1) + DigitVal(s[b])
RECURSIVE Pow10(_)
Pow10(n) == IF n <= 0 THEN 1 ELSE 10 * Pow10(n - 1)

\* parseInt(s): the leading run of digits, NaN when there is none
parseInt(s) ==
  Only({ IF n = 0 THEN NaN ELSE Num(DigitsValue(s, 1, n)) : n \in {DigitRun(s, 1)} })

\* parseFloat(s): the longest prefix digits [. digits] or . digits
parseFloat(s) ==
  Only({ LET dot == n + 1 <= Len(s) /\ s[n + 1] = "."
         IN  Only({ IF n = 0 /\ f = 0 THEN NaN
                    ELSE Norm(DigitsValue(s, 1, n) * Pow10(f)
                                + DigitsValue(s, n + 2, n + 1 + f), 0 - f)
                    : f \in {IF dot THEN DigitRun(s, n + 2) ELSE 0} })
         : n \in {DigitRun(s, 1)} })

Includes(s, c) == \E k \in 1..Len(s) : s[k] = c
\* s.replace(/[cs]/g, "")
Without(s, cs) ==
  LET Kept_(c) == c \notin cs
  IN  SelectSeq(s, Kept_)

\* src/index.ts 80-93
parseLikeCount(text) ==
  Only({ IF Includes(cleanText, "k") THEN Times(parseFloat(cleanText), 1000)
         ELSE IF Includes(cleanText, "m") THEN Times(parseFloat(cleanText), 1000000)
         ELSE Only({ IF plain.nan \/ plain.num = 0 THEN Num(0) ELSE plain
                     : plain \in {parseInt(cleanText)} })
         : cleanText \in {toLowerCase(Without(text, {",", " "}))} })

\* src/unnamed/part_000 467-477
multipliers(unit) == CASE unit = "k" -> 1000 [] unit = "m" -> 1000000 [] OTHER -> 1000000000
parseCount(count) ==
  Only({ LET n == Len(normalized)
             hasUnit == n > 0 /\ normalized[n] \in {"k", "m", "b"}
         IN  Only({ LET match == num # <<>> /\ \A k \in 1..Len(num) : num[k] \in Digits \cup {"."}
                    IN  IF ~match THEN Num(0)
                        ELSE IF hasUnit THEN Times(parseFloat(num), multipliers(normalized[n]))
                        ELSE parseFloat(num)
                    : num \in {IF hasUnit THEN SubSeq(normalized, 1, n - 1) ELSE normalized} })
         : normalized \in {Without(toLowerCase(count), {","})} })

\* the number of word characters of s from position k on
RECURSIVE WordRun(_, _)
WordRun(s, k) == IF k <= Len(s) /\ IsWordChar(s[k]) THEN 1 + WordRun(s, k + 1) ELSE 0
\* text.match(/#[\w\u0590-\u05ff]+/g) || [] , scanning from position k
HashtagsFrom(s, k) ==
  LET from[j \in 1..(Len(s) + 1)] ==
        IF j > Len(s) THEN <<>>
        ELSE IF s[j] = "#" /\ WordRun(s, j + 1) > 0
               THEN <<SubSeq(s, j, j + WordRun(s, j + 1))>> \o from[j + 1 + WordRun(s, j + 1)]
               ELSE from[j + 1]
  IN  from[k]
\* mutant: the regular expression without the g flag
extractHashtags_first(text) ==
  LET all == HashtagsFrom(text, 1)
  IN  IF all = <<>> THEN <<>> ELSE <<Head(all)>>
extractHashtags(text) == HashtagsFrom(text, 1)

\* mutant: the next control is tested before the video element
determinePostTypeOf_nextFirst(dom) ==
  IF dom.next THEN "carousel"
  ELSE IF dom.video THEN "video"
  ELSE IF dom.button THEN "reel"
  ELSE "image"
\* the classifier run in the page: src/index.ts 243-250
determinePostTypeOf(dom) ==
  IF dom.video THEN "video"
  ELSE IF dom.next THEN "carousel"
  ELSE IF dom.button THEN "reel"
  ELSE "image"
\* src/unnamed/part_000 518-523
determinePostTypeByRoute(dom) ==
  IF dom.video THEN "video"
  ELSE IF dom.next THEN "carousel"
  ELSE IF dom.reelRoute THEN "reel"
  ELSE "image"

(***************************************************************************)
(* The target site and the driven page                                     *)
(***************************************************************************)
Blank == <<"blank", 0>>
LoginUrl == <<"login", 0>>
ProfileUrl == <<"profile", 0>>
PostUrl(k) == <<"post", k>>

\* the profile header: texts of the bio, followers and following elements
\* (<<>> when the element is missing or empty)
Headers ==
  { [bio |-> <<"c", "h", "a", "t">>,
     followers |-> <<"1", "0", ".", "5", "k">>,
     following |-> <<"2", "0", "0">>],
    [bio |-> <<>>, followers |-> <<>>, following |-> <<>>] }

\* the posts grid: the hrefs of its anchors in DOM order; an anchor links the
\* post after the previous anchor's, or the same post again
Grids ==
  UNION { { [k \in 1..n |-> PostUrl(g[k])] :
            g \in { h \in [1..n -> 1..n] :
                      /\ n > 0 => h[1] = 1
                      /\ \A k \in 2..n : h[k] \in {h[k - 1], h[k - 1] + 1} } }
          : n \in 0..MaxGrid }

Sites == { [header |-> h, grid |-> g] : h \in Headers, g \in Grids }

EmptyDom == [caption |-> <<>>, likes |-> <<>>, timestamp |-> <<>>,
             video |-> FALSE, next |-> FALSE, button |-> FALSE, reelRoute |-> FALSE]
\* what the page of post k shows
PostDom(k) ==
  [caption   |-> IF k % 2 = 1 THEN <<"#", "a", " ", "#", "b", " ", "#", "a">> ELSE <<>>,
   likes     |-> IF k % 2 = 1 THEN <<"1", ".", "2", "k">> ELSE <<"3", "4", "0">>,
   timestamp |-> IF k % 3 = 0 THEN <<>> ELSE <<"2", "0", "2", "4">>,
   video     |-> k % 4 = 1,
   next      |-> k % 4 = 2,
   button    |-> k % 4 = 3,
   reelRoute |-> k % 4 = 3]
DomAt(loc) == IF loc[1] = "post" THEN PostDom(loc[2]) ELSE EmptyDom

\* the page object is usable while the browser that owns it is open
PageAlive == page # 0 /\ page \in browserOpen

Min(a, b) == IF a < b THEN a ELSE b
slice(s, n) == SubSeq(s, 1, Min(n, Len(s)))
OrDefault(text, default) == IF text = <<>> THEN default ELSE text

\* the values the wrapped operation can resolve with (the page scripts of
\* src/index.ts 121-202)
OperationValues(op) ==
  IF op = "operation" THEN Values
  ELSE IF ~PageAlive THEN {}
  ELSE CASE op = "bio" -> {site.header.bio}
         [] op = "followers" -> {parseInt(OrDefault(site.header.followers, <<"0">>))}
         [] op = "following" -> {parseInt(OrDefault(site.header.following, <<"0">>))}
         [] op = "postLinks" -> {slice(site.grid, SampleSize)}
         [] op = "postData" ->
              {[caption   |-> DomAt(location).caption,
                likes     |-> OrDefault(DomAt(location).likes, <<"0">>),
                timestamp |-> DomAt(location).timestamp]}
         [] OTHER -> {"undefined"}

\* the errors the wrapped operation can reject with: the n-th invocation of
\* a page operation rejects with its own error
OperationErrors(op) ==
  IF op = "operation" THEN {OpError(op, e) : e \in ErrorIds}
  ELSE {OpError(op, Len(rt.log) + 1)}

NoOp == [kind |-> "none", link |-> 0, n |-> 0, res |-> "none", at |-> Blank]
\* where a navigation to target leaves the page
Landing(target, ok) ==
  IF ok THEN {target}
  ELSE IF PageAlive THEN {location, target} ELSE {location}
Target(op) ==
  CASE op = "gotoProfile" -> ProfileUrl
    [] op = "gotoPost" -> postLinks[idx]
    [] OTHER -> location
NoCall == [kind |-> "none", link |-> 0]
\* mutant: the call is made and the code goes on without awaiting it
Suspended_never == FALSE
\* `await`: the invocation does nothing until the call it made settles
Suspended == awaiting # NoCall

\* the page call the invocation is at: the operation wrapped by the
\* retryOperation round about to run, or the call at the position pc
NextOperation ==
  IF variant = "retry"
    THEN CASE rt.state = "try" /\ rt.op # "operation" -> rt.op
           [] pc = "loginCheck" -> "waitLogin"
           [] pc = "headerWait" -> "waitHeader"
           [] pc = "postType" -> "postType"
           [] OTHER -> "none"
    ELSE CASE pc = "navProfile" -> "gotoProfile"
           [] pc = "loginWall" -> "loginWall"
           [] pc = "profileData" -> "profileData"
           [] pc = "postLinks" -> "postLinks"
           [] pc = "postNav" -> "gotoPost"
           [] pc = "postData" -> "postData"
           [] pc = "postType" -> "postType"
           [] OTHER -> "none"

\* the page call the invocation awaits settles: history, and where the page
\* is afterwards (res: "ok" resolved, "fail" rejected, "found" / "absent" for
\* a probe)
Issue(op, n, res) ==
  /\ awaiting.kind = op
  /\ awaiting' = NoCall
  /\ inflight' = Tail(inflight)
  /\ issued' = issued \cup {op}
  /\ location' \in (IF op \in {"gotoProfile", "gotoPost"} THEN Landing(Target(op), res = "ok")
                    ELSE {location})
  /\ lastOp' = [kind |-> op, link |-> idx, n |-> n, res |-> res, at |-> location']
  /\ loginChecks' = IF op \in {"waitLogin", "loginWall"} THEN loginChecks + 1 ELSE loginChecks

(***************************************************************************)
(* retryOperation: the steps                                               *)
(***************************************************************************)
\* await this.page.goto(...) / evaluate(...) / waitForSelector(...) / $(...):
\* the call is made and is in flight
page_call ==
  /\ ~Suspended
  /\ NextOperation # "none"
  /\ awaiting' = [kind |-> NextOperation, link |-> idx]
  /\ inflight' = Append(inflight, awaiting')
  /\ UNCHANGED <<issued, lastOp, loginChecks, location, rt, pc, error, profile, localVars>>
  /\ UNCHANGED <<envVars, scraperVars, mainPc, calls>>

\* return await operation()  -- the operation is invoked and settles
retryOperation_attempt ==
  /\ rt.state = "try"
  /\ \/ \E v \in OperationValues(rt.op) :
          /\ rt' = retryOnSuccess([rt EXCEPT !.log = Append(@, Succeeded(rt.op)),
                                             !.produced = v], v)
          /\ IF rt.op = "operation" THEN UNCHANGED <<ghostVars, location>>
             ELSE Issue(rt.op, Len(rt.log) + 1, "ok")
     \/ \E e \in OperationErrors(rt.op) :
          /\ rt' = retryOnError([rt EXCEPT !.log = Append(@, e)], e)
          /\ IF rt.op = "operation" THEN UNCHANGED <<ghostVars, location>>
             ELSE Issue(rt.op, Len(rt.log) + 1, "fail")
  /\ UNCHANGED <<envVars, scraperVars, pc, error, profile, localVars, mainPc, calls>>

\* await new Promise((resolve) => setTimeout(resolve, delay)) completes
retryOperation_sleep ==
  /\ rt.state = "sleep"
  /\ rt' = retryAfterSleep([rt EXCEPT !.waits = Append(@, rt.delay)])
  /\ UNCHANGED <<envVars, scraperVars, scrapeVars, mainPc, calls>>

(***************************************************************************)
(* scrapeUserProfile, src/index.ts 115-236 (variant "retry")               *)
(***************************************************************************)
callerVars == <<envVars, scraperVars, mainPc, calls>>
Running == pc \notin {"idle", "returned", "thrown"}

\* a new invocation: fresh locals and history
FreshLocals ==
  /\ bio' = <<>> /\ followersCount' = Num(0) /\ followingCount' = Num(0)
  /\ postLinks' = <<>> /\ postData' = [caption |-> <<>>, likes |-> <<>>, timestamp |-> <<>>]
  /\ posts' = <<>> /\ idx' = 0 /\ outcome' = <<>>
  /\ issued' = {} /\ lastOp' = NoOp /\ loginChecks' = 0
  /\ awaiting' = NoCall /\ inflight' = <<>>
  /\ profile' = <<>>

\* catch (error) { console.error(...); throw error; }  -- the outer catch
Throw(e) == pc' = "thrown" /\ error' = e /\ rt' = Idle /\ profile' = profile

\* return { username, bio, posts, followersCount, followingCount }
Return ==
  /\ pc' = "returned"
  /\ profile' = <<[username |-> "user", bio |-> bio, posts |-> posts,
                   followersCount |-> followersCount, followingCount |-> followingCount]>>
  /\ rt' = Idle
  /\ error' = error

\* the next round of `for (const link of postLinks)`, or the return after it
NextLink ==
  IF idx < Len(postLinks)
    THEN /\ idx' = idx + 1
         /\ pc' = "postNav"
         /\ rt' = retryOperation("gotoPost", DefaultRetries, DefaultDelay)
         /\ UNCHANGED <<error, profile>>
    ELSE Return /\ UNCHANGED idx

\* if (!this.page) throw ...; then the first statement of the try block
scrapeUserProfile_begin ==
  /\ variant = "retry"
  /\ FreshLocals
  /\ IF page = 0
       THEN pc' = "thrown" /\ error' = NotInitialized /\ rt' = Idle
       ELSE /\ pc' = "navProfile"
            /\ error' = NoError
            /\ rt' = retryOperation("gotoProfile", DefaultRetries, DefaultDelay)
  /\ UNCHANGED location

\* await this.retryOperation(goto profile) settles
gotoProfile_done ==
  /\ variant = "retry" /\ pc = "navProfile" /\ rt.state \in {"returned", "thrown"}
  /\ IF rt.state = "returned"
       THEN pc' = "loginCheck" /\ rt' = Idle /\ UNCHANGED <<error, profile>>
       ELSE Throw(rt.thrown)
  /\ UNCHANGED <<localVars, ghostVars, location, callerVars>>

\* mutant: the login prompt is logged and the scrape goes on
waitForSelector_login_ignored ==
  /\ variant = "retry" /\ pc = "loginCheck"
  /\ \/ /\ PageAlive
        /\ Issue("waitLogin", 1, "found")
        /\ pc' = "headerWait" /\ UNCHANGED <<error, profile, rt>>
     \/ /\ Issue("waitLogin", 1, "fail")
        /\ pc' = "headerWait" /\ UNCHANGED <<error, profile, rt>>
  /\ UNCHANGED <<localVars, callerVars>>

\* if (await this.waitForSelector('input[name="username"]')) throw new Error("Login required ...")
\* waitForSelector (64-73) gives true when the selector shows up, false when
\* page.waitForSelector rejects
waitForSelector_login ==
  /\ variant = "retry" /\ pc = "loginCheck"
  /\ \/ /\ PageAlive
        /\ Issue("waitLogin", 1, "found")
        /\ Throw(LoginRequired)
     \/ /\ Issue("waitLogin", 1, "fail")
        /\ pc' = "headerWait" /\ UNCHANGED <<error, profile, rt>>
  /\ UNCHANGED <<localVars, callerVars>>

\* await this.waitForSelector("header section");  -- the result is not used
waitForSelector_header ==
  /\ variant = "retry" /\ pc = "headerWait"
  /\ \/ PageAlive /\ Issue("waitHeader", 1, "found")
     \/ Issue("waitHeader", 1, "fail")
  /\ pc' = "bio"
  /\ rt' = retryOperation("bio", DefaultRetries, DefaultDelay)
  /\ UNCHANGED <<error, profile, localVars, callerVars>>

\* const bio = await this.retryOperation(...) settles
bio_done ==
  /\ variant = "retry" /\ pc = "bio" /\ rt.state \in {"returned", "thrown"}
  /\ IF rt.state = "returned"
       THEN /\ bio' = rt.value
            /\ pc' = "followers"
            /\ rt' = retryOperation("followers", DefaultRetries, DefaultDelay)
            /\ UNCHANGED <<error, profile>>
       ELSE Throw(rt.thrown) /\ UNCHANGED bio
  /\ UNCHANGED <<followersCount, followingCount, postLinks, postData, posts, idx, outcome,
                 ghostVars, location, callerVars>>

\* const followersCount = await this.retryOperation(...) settles
followers_done ==
  /\ variant = "retry" /\ pc = "followers" /\ rt.state \in {"returned", "thrown"}
  /\ IF rt.state = "returned"
       THEN /\ followersCount' = rt.value
            /\ pc' = "following"
            /\ rt' = retryOperation("following", DefaultRetries, DefaultDelay)
            /\ UNCHANGED <<error, profile>>
       ELSE Throw(rt.thrown) /\ UNCHANGED followersCount
  /\ UNCHANGED <<bio, followingCount, postLinks, postData, posts, idx, outcome,
                 ghostVars, location, callerVars>>

\* const followingCount = await this.retryOperation(...) settles
following_done ==
  /\ variant = "retry" /\ pc = "following" /\ rt.state \in {"returned", "thrown"}
  /\ IF rt.state = "returned"
       THEN /\ followingCount' = rt.value
            /\ pc' = "postLinks"
            /\ rt' = retryOperation("postLinks", DefaultRetries, DefaultDelay)
            /\ UNCHANGED <<error, profile>>
       ELSE Throw(rt.thrown) /\ UNCHANGED followingCount
  /\ UNCHANGED <<bio, followersCount, postLinks, postData, posts, idx, outcome,
                 ghostVars, location, callerVars>>

\* const postLinks = await this.retryOperation(...) settles; the loop starts
postLinks_done ==
  /\ variant = "retry" /\ pc = "postLinks" /\ rt.state \in {"returned", "thrown"}
  /\ IF rt.state = "returned"
       THEN /\ postLinks' = rt.value
            /\ IF Len(rt.value) > 0
                 THEN /\ idx' = 1
                      /\ pc' = "postNav"
                      /\ rt' = retryOperation("gotoPost", DefaultRetries, DefaultDelay)
                      /\ UNCHANGED <<error, profile>>
                 ELSE Return /\ UNCHANGED idx
       ELSE Throw(rt.thrown) /\ UNCHANGED <<postLinks, idx>>
  /\ UNCHANGED <<bio, followersCount, followingCount, postData, posts, outcome,
                 ghostVars, location, callerVars>>

\* mutant: a navigation that failed on every attempt is rethrown
gotoPost_done_rethrow ==
  /\ variant = "retry" /\ pc = "postNav" /\ rt.state \in {"returned", "thrown"}
  /\ IF rt.state = "returned"
       THEN /\ pc' = "postData"
            /\ rt' = retryOperation("postData", DefaultRetries, DefaultDelay)
            /\ UNCHANGED <<error, profile, idx, outcome>>
       ELSE Throw(rt.thrown) /\ UNCHANGED <<idx, outcome>>
  /\ UNCHANGED <<bio, followersCount, followingCount, postLinks, postData, posts,
                 ghostVars, location, callerVars>>

\* await this.retryOperation(goto link) settles; on failure the catch of the
\* loop body logs and continues
gotoPost_done ==
  /\ variant = "retry" /\ pc = "postNav" /\ rt.state \in {"returned", "thrown"}
  /\ IF rt.state = "returned"
       THEN /\ pc' = "postData"
            /\ rt' = retryOperation("postData", DefaultRetries, DefaultDelay)
            /\ UNCHANGED <<error, profile, idx, outcome>>
       ELSE /\ outcome' = Append(outcome, "navFailed")
            /\ NextLink
  /\ UNCHANGED <<bio, followersCount, followingCount, postLinks, postData, posts,
                 ghostVars, location, callerVars>>

\* const postData = await this.retryOperation(...) settles
postData_done ==
  /\ variant = "retry" /\ pc = "postData" /\ rt.state \in {"returned", "thrown"}
  /\ IF rt.state = "returned"
       THEN /\ postData' = rt.value
            /\ pc' = "postType"
            /\ rt' = Idle
            /\ UNCHANGED <<error, profile, idx, outcome>>
       ELSE /\ outcome' = Append(outcome, "dataFailed")
            /\ NextLink
            /\ UNCHANGED postData
  /\ UNCHANGED <<bio, followersCount, followingCount, postLinks, posts,
                 ghostVars, location, callerVars>>

\* the record of src/index.ts 206-213
PostRecord(type, link) ==
  [type |-> type, likes |-> parseLikeCount(postData.likes),
   hashtags |-> extractHashtags(postData.caption), caption |-> postData.caption,
   postUrl |-> link, timestamp |-> postData.timestamp]

\* mutant: posts.unshift(...)
pushPost_front(record) == posts' = <<record>> \o posts
\* posts.push(...)
pushPost(record) == posts' = Append(posts, record)

\* posts.push({ type: await this.determinePostType(), ... }): the page script
\* of determinePostType (238-251) settles, then the push
determinePostType_push ==
  /\ variant = "retry" /\ pc = "postType"
  /\ \/ /\ PageAlive
        /\ Issue("postType", 1, "ok")
        /\ pushPost(PostRecord(determinePostTypeOf(DomAt(location)), postLinks[idx]))
        /\ outcome' = Append(outcome, "ok")
        /\ pc' = "postDelay"
        /\ UNCHANGED <<error, profile, rt, idx>>
     \/ /\ Issue("postType", 1, "fail")
        /\ outcome' = Append(outcome, "typeFailed")
        /\ NextLink
        /\ UNCHANGED posts
  /\ UNCHANGED <<bio, followersCount, followingCount, postLinks, postData, callerVars>>

\* await new Promise((resolve) => setTimeout(resolve, 1000)) completes
postDelay ==
  /\ variant = "retry" /\ pc = "postDelay"
  /\ NextLink
  /\ UNCHANGED <<bio, followersCount, followingCount, postLinks, postData, posts, outcome,
                 ghostVars, location, callerVars>>

(***************************************************************************)
(* scrapeUserProfile, src/unnamed/part_000 395-465 (variant "login")       *)
(***************************************************************************)
Return_login ==
  /\ pc' = "returned"
  /\ profile' = <<[username |-> "user", bio |-> bio, posts |-> posts,
                   followersCount |-> followersCount, followingCount |-> followingCount]>>
  /\ rt' = Idle
  /\ error' = error

\* the next round of `for (const link of postLinks.slice(0, 4))`
NextLink_login ==
  IF idx < Len(slice(postLinks, SampleSize))
    THEN /\ idx' = idx + 1
         /\ pc' = "postNav"
         /\ UNCHANGED <<error, profile, rt>>
    ELSE Return_login /\ UNCHANGED idx

\* if (!this.page) throw ...; then await this.delay(...) is entered
scrapeUserProfile_login_begin ==
  /\ variant = "login"
  /\ FreshLocals
  /\ rt' = Idle
  /\ IF page = 0
       THEN pc' = "thrown" /\ error' = NotInitialized
       ELSE pc' = "preDelay" /\ error' = NoError
  /\ UNCHANGED location

\* await this.delay(Math.random() * 2000 + 1000) completes
preDelay_login ==
  /\ variant = "login" /\ pc = "preDelay"
  /\ pc' = "navProfile"
  /\ UNCHANGED <<rt, error, profile, localVars, ghostVars, location, callerVars>>

\* mutant: the login wall is probed whether or not the session logged in
gotoProfile_login_alwaysCheck ==
  /\ variant = "login" /\ pc = "navProfile"
  /\ \/ /\ PageAlive
        /\ Issue("gotoProfile", 1, "ok")
        /\ pc' = "loginWall"
        /\ UNCHANGED <<rt, error, profile>>
     \/ /\ Issue("gotoProfile", 1, "fail")
        /\ Throw(OpError("gotoProfile", 1))
  /\ UNCHANGED <<localVars, callerVars>>

\* await this.page.goto(profile) settles
gotoProfile_login ==
  /\ variant = "login" /\ pc = "navProfile"
  /\ \/ /\ PageAlive
        /\ Issue("gotoProfile", 1, "ok")
        /\ pc' = IF ~isLoggedIn THEN "loginWall" ELSE "settle"
        /\ UNCHANGED <<rt, error, profile>>
     \/ /\ Issue("gotoProfile", 1, "fail")
        /\ Throw(OpError("gotoProfile", 1))
  /\ UNCHANGED <<localVars, callerVars>>

\* const loginWall = await this.page.$("text/Log in to Instagram"); if (loginWall) throw ...
loginWall_login ==
  /\ variant = "login" /\ pc = "loginWall"
  /\ \/ /\ PageAlive
        /\ \/ Issue("loginWall", 1, "found") /\ Throw(LoginRequired)
           \/ /\ Issue("loginWall", 1, "absent")
              /\ pc' = "settle" /\ UNCHANGED <<rt, error, profile>>
     \/ /\ Issue("loginWall", 1, "fail")
        /\ Throw(OpError("loginWall", 1))
  /\ UNCHANGED <<localVars, callerVars>>

\* await this.delay(3000) completes
settle_login ==
  /\ variant = "login" /\ pc = "settle"
  /\ pc' = "profileData"
  /\ UNCHANGED <<rt, error, profile, localVars, ghostVars, location, callerVars>>

\* const profileData = await this.page.evaluate(...) settles; the counts are
\* converted and getPostLinks() is entered
profileData_login ==
  /\ variant = "login" /\ pc = "profileData"
  /\ \/ /\ PageAlive
        /\ Issue("profileData", 1, "ok")
        /\ bio' = site.header.bio
        /\ followersCount' = parseCount(OrDefault(site.header.followers, <<"0">>))
        /\ followingCount' = parseCount(OrDefault(site.header.following, <<"0">>))
        /\ pc' = "postLinks"
        /\ UNCHANGED <<rt, error, profile>>
     \/ /\ Issue("profileData", 1, "fail")
        /\ Throw(OpError("profileData", 1))
        /\ UNCHANGED <<bio, followersCount, followingCount>>
  /\ UNCHANGED <<postLinks, postData, posts, idx, outcome, callerVars>>

\* getPostLinks (479-486): the page script settles; the loop starts
getPostLinks_login ==
  /\ variant = "login" /\ pc = "postLinks"
  /\ \/ /\ PageAlive
        /\ Issue("postLinks", 1, "ok")
        /\ postLinks' = site.grid
        /\ IF Len(site.grid) > 0
             THEN idx' = 1 /\ pc' = "postNav" /\ UNCHANGED <<rt, error, profile>>
             ELSE Return_login /\ UNCHANGED idx
     \/ /\ Issue("postLinks", 1, "fail")
        /\ Throw(OpError("postLinks", 1))
        /\ UNCHANGED <<postLinks, idx>>
  /\ UNCHANGED <<bio, followersCount, followingCount, postData, posts, outcome, callerVars>>

\* scrapePost (488-492): await this.page.goto(url) settles
scrapePost_goto ==
  /\ variant = "login" /\ pc = "postNav"
  /\ \/ /\ PageAlive
        /\ Issue("gotoPost", 1, "ok")
        /\ pc' = "postSettle"
        /\ UNCHANGED <<rt, error, profile, idx, outcome>>
     \/ /\ Issue("gotoPost", 1, "fail")
        /\ outcome' = Append(outcome, "navFailed")
        /\ NextLink_login
  /\ UNCHANGED <<bio, followersCount, followingCount, postLinks, postData, posts, callerVars>>

\* scrapePost: await this.delay(2000) completes
scrapePost_delay ==
  /\ variant = "login" /\ pc = "postSettle"
  /\ pc' = "postData"
  /\ UNCHANGED <<rt, error, profile, localVars, ghostVars, location, callerVars>>

\* scrapePost (494-501): the page script settles
scrapePost_evaluate ==
  /\ variant = "login" /\ pc = "postData"
  /\ \/ /\ PageAlive
        /\ Issue("postData", 1, "ok")
        /\ postData' = [caption   |-> DomAt(location).caption,
                        likes     |-> OrDefault(DomAt(location).likes, <<"0">>),
                        timestamp |-> DomAt(location).timestamp]
        /\ pc' = "postType"
        /\ UNCHANGED <<rt, error, profile, idx, outcome>>
     \/ /\ Issue("postData", 1, "fail")
        /\ outcome' = Append(outcome, "dataFailed")
        /\ NextLink_login
        /\ UNCHANGED postData
  /\ UNCHANGED <<bio, followersCount, followingCount, postLinks, posts, callerVars>>

\* the record of part_000 503-510
PostRecord_login(type, url) ==
  [type |-> type, likes |-> parseCount(postData.likes),
   hashtags |-> extractHashtags(postData.caption), caption |-> postData.caption,
   postUrl |-> url, timestamp |-> postData.timestamp]

\* scrapePost (504): determinePostType (513-524) settles; scrapePost returns
\* and posts.push(postData) runs
scrapePost_determinePostType ==
  /\ variant = "login" /\ pc = "postType"
  /\ \/ /\ PageAlive
        /\ Issue("postType", 1, "ok")
        /\ posts' = Append(posts, PostRecord_login(determinePostTypeByRoute(DomAt(location)),
                                                   postLinks[idx]))
        /\ outcome' = Append(outcome, "ok")
        /\ pc' = "postDelay"
        /\ UNCHANGED <<rt, error, profile, idx>>
     \/ /\ Issue("postType", 1, "fail")
        /\ outcome' = Append(outcome, "typeFailed")
        /\ NextLink_login
        /\ UNCHANGED posts
  /\ UNCHANGED <<bio, followersCount, followingCount, postLinks, postData, callerVars>>

\* await this.delay(Math.random() * 1000 + 500) completes
postDelay_login ==
  /\ variant = "login" /\ pc = "postDelay"
  /\ NextLink_login
  /\ UNCHANGED <<bio, followersCount, followingCount, postLinks, postData, posts, outcome,
                 ghostVars, location, callerVars>>

(***************************************************************************)
(* initialize and close                                                    *)
(***************************************************************************)
\* the awaited steps of initialize, in order; failAt names the one that
\* rejects ("none": all resolve)
InitSteps == {"launch", "newPage", "setUserAgent", "setRequestInterception"}
InitSteps_login == {"launch", "newPage", "setViewport", "setUserAgent",
                    "setExtraHTTPHeaders", "login"}

\* this.browser = await puppeteer.launch(...); this.page = await this.browser.newPage();
\* the fields are assigned as far as the steps got, and the catch rethrows
Launch(failAt) ==
  LET b == launched + 1
      launchOk == failAt # "launch"
      pageOk == failAt \notin {"launch", "newPage"}
  IN  /\ launched' = IF launchOk THEN b ELSE launched
      /\ browser' = IF launchOk THEN b ELSE browser
      /\ browserOpen' = IF launchOk THEN browserOpen \cup {b} ELSE browserOpen
      /\ closeCalls' = IF launchOk THEN closeCalls @@ (b :> 0) ELSE closeCalls
      /\ page' = IF pageOk THEN b ELSE page
      /\ initResult' = IF failAt = "none" THEN "ok" ELSE "failed"
      /\ closes' = closes

\* src/index.ts 24-62
initialize(failAt) ==
  /\ variant = "retry"
  /\ Launch(failAt)
  /\ location' = IF failAt \notin {"launch", "newPage"} THEN Blank ELSE location
  /\ UNCHANGED isLoggedIn

\* src/unnamed/part_000 293-335, with login (337-393) when credentials are given
initialize_login(credentials, failAt) ==
  /\ variant = "login"
  /\ failAt = "login" => credentials
  /\ Launch(failAt)
  /\ location' = IF failAt \in {"launch", "newPage"} THEN location
                 ELSE IF credentials /\ failAt \in {"login", "none"} THEN LoginUrl
                 ELSE Blank
  /\ isLoggedIn' = IF credentials /\ failAt = "none" THEN TRUE ELSE isLoggedIn

\* src/index.ts 253-257
close ==
  /\ IF browser # 0
       THEN /\ closeCalls' = [closeCalls EXCEPT ![browser] = @ + 1]
            /\ browserOpen' = browserOpen \ {browser}
       ELSE UNCHANGED <<closeCalls, browserOpen>>
  /\ closes' = closes + 1
  /\ UNCHANGED <<browser, page, isLoggedIn, launched, initResult>>

(***************************************************************************)
(* main, src/index.ts 261-297 and src/unnamed/part_000 539-554             *)
(***************************************************************************)
scrapeIdle == <<rt, pc, error, profile, localVars, ghostVars>>

\* await scraper.initialize(); a rejection goes to the catch, then finally
main_initialize ==
  /\ mainPc = "start"
  /\ \E failAt \in InitSteps \cup {"none"} : initialize(failAt)
  /\ mainPc' = IF initResult' = "ok" THEN "scrape" ELSE "finally"
  /\ UNCHANGED <<envVars, scrapeIdle, calls>>

\* await scraper.initialize({ username, password })
main_initialize_login ==
  /\ mainPc = "start"
  /\ \E failAt \in InitSteps_login \cup {"none"} : initialize_login(TRUE, failAt)
  /\ mainPc' = IF initResult' = "ok" THEN "scrape" ELSE "finally"
  /\ UNCHANGED <<envVars, scrapeIdle, calls>>

\* const profile = await scraper.scrapeUserProfile(username) is entered
main_scrapeUserProfile ==
  /\ mainPc = "scrape"
  /\ scrapeUserProfile_begin
  /\ mainPc' = "scraping"
  /\ UNCHANGED <<envVars, scraperVars, calls>>

main_scrapeUserProfile_login ==
  /\ mainPc = "scrape"
  /\ scrapeUserProfile_login_begin
  /\ mainPc' = "scraping"
  /\ UNCHANGED <<envVars, scraperVars, calls>>

\* mutant: close() only after a scrape that returned
main_settled_leak ==
  /\ mainPc = "scraping" /\ ~Running
  /\ mainPc' = IF pc = "returned" THEN "finally" ELSE "done"
  /\ UNCHANGED <<envVars, scraperVars, rt, scrapeVars, calls>>

\* the await settles: the profile is printed, or the catch logs the error;
\* either way the finally block is next
main_settled ==
  /\ mainPc = "scraping" /\ ~Running
  /\ mainPc' = "finally"
  /\ UNCHANGED <<envVars, scraperVars, rt, scrapeVars, calls>>

\* finally { await scraper.close(); }
main_finally ==
  /\ mainPc = "finally"
  /\ close
  /\ mainPc' = "done"
  /\ UNCHANGED <<envVars, rt, scrapeVars, calls>>

(***************************************************************************)
(* A caller of the class that awaits every call before making the next     *)
(***************************************************************************)
CallerReady == mainPc = "client" /\ ~Running /\ calls < MaxCalls

client_initialize ==
  /\ CallerReady
  /\ \E failAt \in InitSteps \cup {"none"} : initialize(failAt)
  /\ calls' = calls + 1
  /\ UNCHANGED <<envVars, scrapeIdle, mainPc>>

client_initialize_login ==
  /\ CallerReady
  /\ \E credentials \in BOOLEAN, failAt \in InitSteps_login \cup {"none"} :
       initialize_login(credentials, failAt)
  /\ calls' = calls + 1
  /\ UNCHANGED <<envVars, scrapeIdle, mainPc>>

client_scrapeUserProfile ==
  /\ CallerReady
  /\ scrapeUserProfile_begin
  /\ calls' = calls + 1
  /\ UNCHANGED <<envVars, scraperVars, mainPc>>

client_scrapeUserProfile_login ==
  /\ CallerReady
  /\ scrapeUserProfile_login_begin
  /\ calls' = calls + 1
  /\ UNCHANGED <<envVars, scraperVars, mainPc>>

client_close ==
  /\ CallerReady
  /\ close
  /\ calls' = calls + 1
  /\ UNCHANGED <<envVars, rt, scrapeVars, mainPc>>

(***************************************************************************)
(* A caller that does not await: scrapeUserProfile is called again while   *)
(* an invocation is running.  The second invocation is followed up to its  *)
(* first navigation, which drives the page both invocations share.         *)
(***************************************************************************)
\* scrapeUserProfile is entered a second time: if (!this.page) throw ...
second_scrapeUserProfile ==
  /\ mainPc = "client" /\ Running /\ pc2 = "idle"
  /\ pc2' = IF page = 0 THEN "thrown" ELSE "navProfile"
  /\ UNCHANGED <<variant, site, pureVars, scraperVars, rt, scrapeVars, mainPc, calls>>

\* the second invocation's this.page.goto(profile) settles
second_gotoProfile ==
  /\ pc2 = "navProfile"
  /\ \/ PageAlive /\ location' = ProfileUrl /\ pc2' = "navigated"
     \/ location' \in Landing(ProfileUrl, FALSE) /\ pc2' = "navFailed"
  /\ UNCHANGED <<variant, site, pureVars, scraperVars, rt, pc, error, profile,
                 localVars, ghostVars, mainPc, calls>>

(***************************************************************************)
(* The pure helpers applied to an argument                                 *)
(***************************************************************************)
Alphabet == {"0", "1", ".", ",", " ", "k", "m", "b", "K", "#", "a"}
Strings(n) == UNION { [1..k -> Alphabet] : k \in 0..n }
\* longer arguments: header and like texts, captions
Examples ==
  { <<"1", ",", "2", "3", "4">>, <<"1", "2", ".", "3", "k">>, <<"1", "0", ".", "5", "k">>,
    <<"2", "0", "0">>, <<"2", "m">>, <<"2", "b">>, <<"1", ".", "5", "M">>,
    <<"a", "b", "c">>, <<"1", ".", "2", ".", "3">>,
    <<"1", ",", "2", "3", "4", " ", "l", "i", "k", "e", "s">>,
    <<"#", "a", " ", "#", "b", " ", "#", "a">>, <<"c", "h", "a", "t", " ", "#", "a", "b">> }
Texts == Strings(MaxLen) \cup Examples
\* what document.querySelector / location.pathname can show the classifier
Doms == { [EmptyDom EXCEPT !.video = v, !.next = n, !.button = b, !.reelRoute = r] :
          v \in BOOLEAN, n \in BOOLEAN, b \in BOOLEAN, r \in BOOLEAN }
NoInput == [text |-> <<>>, dom |-> EmptyDom]
Inputs == { [text |-> t, dom |-> EmptyDom] : t \in Texts }
            \cup { [text |-> <<>>, dom |-> d] : d \in Doms }

Applied(name, value) ==
  /\ mainPc = "pure" /\ fn = "none"
  /\ fn' = name /\ output' = value
  /\ UNCHANGED <<input, variant, site, pc2, scraperVars, rt, scrapeVars, mainPc, calls>>

apply_parseLikeCount == variant = "retry" /\ Applied("parseLikeCount", parseLikeCount(input.text))
apply_parseCount == variant = "login" /\ Applied("parseCount", parseCount(input.text))
apply_extractHashtags == Applied("extractHashtags", extractHashtags(input.text))
apply_determinePostType ==
  variant = "retry" /\ Applied("determinePostType", determinePostTypeOf(input.dom))
apply_determinePostType_login ==
  variant = "login" /\ Applied("determinePostType", determinePostTypeByRoute(input.dom))

(***************************************************************************)
(* Specifications                                                          *)
(***************************************************************************)
\* new SocialMediaScraper(): browser = null, page = null, isLoggedIn = false
Constructed ==
  /\ browser = 0 /\ page = 0 /\ isLoggedIn = FALSE
  /\ launched = 0 /\ browserOpen = {} /\ closeCalls = <<>> /\ initResult = "none" /\ closes = 0
  /\ pc = "idle" /\ error = NoError /\ profile = <<>>
  /\ bio = <<>> /\ followersCount = Num(0) /\ followingCount = Num(0)
  /\ postLinks = <<>> /\ postData = [caption |-> <<>>, likes |-> <<>>, timestamp |-> <<>>]
  /\ posts = <<>> /\ idx = 0 /\ outcome = <<>>
  /\ issued = {} /\ lastOp = NoOp /\ loginChecks = 0
  /\ awaiting = NoCall /\ inflight = <<>>
  /\ location = Blank
  /\ calls = 0 /\ pc2 = "idle"

\* no pure helper is under test
NotPure == fn = "none" /\ input = NoInput /\ output = "none"

\* the steps of a scrapeUserProfile invocation in flight; main() always logs
\* in before it scrapes, so the login-wall probe runs only for other callers
MainScrapeStep ==
  \/ page_call
  \/ retryOperation_attempt \/ retryOperation_sleep
  \/ gotoProfile_done \/ waitForSelector_login \/ waitForSelector_header
  \/ bio_done \/ followers_done \/ following_done \/ postLinks_done
  \/ gotoPost_done \/ postData_done \/ determinePostType_push \/ postDelay
  \/ preDelay_login \/ gotoProfile_login \/ settle_login
  \/ profileData_login \/ getPostLinks_login
  \/ scrapePost_goto \/ scrapePost_delay \/ scrapePost_evaluate
  \/ scrapePost_determinePostType \/ postDelay_login

Init ==
  /\ variant \in {"retry", "login"} /\ site \in Sites
  /\ Constructed /\ rt = Idle /\ NotPure
  /\ mainPc = "start"

Next ==
  \/ main_initialize \/ main_initialize_login
  \/ main_scrapeUserProfile \/ main_scrapeUserProfile_login
  \/ main_settled \/ main_finally
  \/ MainScrapeStep

Spec == Init /\ [][Next]_vars

\* the event loop runs every continuation that is ready, and every page
\* operation and timer settles: a step that can be taken is taken
\* The runs start from a grid of distinct anchors: the loop over the posts
\* reads the links after the duplicates are dropped.
LiveGrids == { [k \in 1..n |-> PostUrl(k)] : n \in 0..MaxLiveGrid }
InitLive ==
  /\ variant \in {"retry", "login"}
  /\ site \in { [header |-> h, grid |-> g] : h \in Headers, g \in LiveGrids }
  /\ Constructed /\ rt = Idle /\ NotPure
  /\ mainPc = "start"
SpecLive == InitLive /\ [][Next]_vars /\ WF_vars(Next)

InitClient ==
  /\ variant \in {"retry", "login"}
  /\ site \in {s \in Sites : Len(s.grid) <= MaxClientGrid}
  /\ Constructed /\ rt = Idle /\ NotPure
  /\ mainPc = "client"

NextClient ==
  \/ client_initialize \/ client_initialize_login
  \/ client_scrapeUserProfile \/ client_scrapeUserProfile_login
  \/ client_close
  \/ loginWall_login
  \/ MainScrapeStep

SpecClient == InitClient /\ [][NextClient]_vars

InitOverlap == InitClient
NextOverlap == NextClient \/ second_scrapeUserProfile \/ second_gotoProfile
SpecOverlap == InitOverlap /\ [][NextOverlap]_vars

\* retryOperation(operation, retries, delay) has just been called
InitRetry ==
  /\ variant = "retry" /\ site = [header |-> [bio |-> <<>>, followers |-> <<>>, following |-> <<>>],
                                  grid |-> <<>>]
  /\ Constructed /\ NotPure
  /\ mainPc = "harness"
  /\ \E n \in 0..MaxRetries, d \in Delays : rt = retryOperation("operation", n, d)

NextRetry == retryOperation_attempt \/ retryOperation_sleep

SpecRetry == InitRetry /\ [][NextRetry]_vars

\* a helper is about to be called with an argument of the input sets
InitPure ==
  /\ variant \in {"retry", "login"}
  /\ site = [header |-> [bio |-> <<>>, followers |-> <<>>, following |-> <<>>], grid |-> <<>>]
  /\ Constructed /\ rt = Idle
  /\ mainPc = "pure"
  /\ fn = "none" /\ input \in Inputs /\ output = "none"

NextPure ==
  \/ apply_parseLikeCount \/ apply_parseCount \/ apply_extractHashtags
  \/ apply_determinePostType \/ apply_determinePostType_login

SpecPure == InitPure /\ [][NextPure]_vars

(***************************************************************************)
(* Properties of retryOperation (checked under SpecRetry)                  *)
(***************************************************************************)
Failed(entry) == entry.kind = "OpError"
AllFailed(log) == \A k \in 1..Len(log) : Failed(log[k])

\* C1: with retries >= 1, retryOperation invokes the operation at most
\* retries times, makes no invocation after one that succeeded, and returns
\* the value of that invocation; two failures and a success give the
\* success value after exactly 3 invocations.
C1_RetryStopsAtFirstSuccess ==
  rt.retries >= 1 =>
    /\ Len(rt.log) <= rt.retries
    /\ \A k \in 1..Len(rt.log) :
         ~Failed(rt.log[k]) => k = Len(rt.log) /\ rt.state = "returned"
    /\ rt.state = "returned" =>
         /\ Len(rt.log) >= 1
         /\ ~Failed(rt.log[Len(rt.log)])
         /\ rt.value = rt.produced
    /\ (Len(rt.log) = 3 /\ Failed(rt.log[1]) /\ Failed(rt.log[2]) /\ ~Failed(rt.log[3])) =>
         rt.state = "returned" /\ rt.value = rt.produced

C1_Witness ==
  /\ rt.state = "returned" /\ rt.retries >= 3 /\ rt.value = "v2"
  /\ Len(rt.log) = 3 /\ Failed(rt.log[1]) /\ Failed(rt.log[2])

\* C2: when every one of the retries invocations fails, retryOperation
\* throws after exactly retries invocations, and what it throws is the error
\* of the last invocation.
C2_RetryThrowsLastError ==
  /\ rt.state = "thrown" =>
       /\ Len(rt.log) = rt.retries
       /\ AllFailed(rt.log)
       /\ rt.retries >= 1 => rt.thrown = rt.log[Len(rt.log)]
  /\ (rt.retries >= 1 /\ Len(rt.log) = rt.retries /\ AllFailed(rt.log)) => rt.state = "thrown"

C2_Witness ==
  /\ rt.state = "thrown" /\ rt.retries = 3
  /\ rt.log[1] # rt.log[3] /\ rt.thrown = rt.log[3]

\* C3: the k-th completed wait lasts delay * 2^(k-1); every failed attempt
\* but the last one is followed by exactly one wait, and no wait follows the
\* last failed attempt or a successful one, so n failed attempts make n-1
\* waits, of non-decreasing length.
C3_RetryBackoff ==
  /\ \A k \in 1..Len(rt.waits) : rt.waits[k] = rt.delay0 * Pow2(k - 1)
  /\ \A k \in 2..Len(rt.waits) : rt.waits[k - 1] <= rt.waits[k]
  /\ rt.state = "try" => Len(rt.waits) = Len(rt.log)
  /\ rt.state = "sleep" => Len(rt.waits) = Len(rt.log) - 1
  /\ rt.state = "returned" => Len(rt.waits) = Len(rt.log) - 1
  /\ (rt.state = "thrown" /\ rt.retries >= 1) => Len(rt.waits) = Len(rt.log) - 1
  /\ rt.retries >= 1 => Len(rt.waits) <= rt.retries - 1

C3_Witness ==
  /\ rt.state = "thrown" /\ Len(rt.log) = 3
  /\ rt.waits = <<DefaultDelay, 2 * DefaultDelay>>

(***************************************************************************)
(* Properties of scrapeUserProfile, main and close                         *)
(***************************************************************************)
\* the links among the first Len(out) of links whose processing ended "ok"
RECURSIVE Kept(_, _)
Kept(links, out) ==
  IF out = <<>> \/ links = <<>> THEN <<>>
  ELSE (IF Head(out) = "ok" THEN <<Head(links)>> ELSE <<>>) \o Kept(Tail(links), Tail(out))
PostUrls(p) == [k \in 1..Len(p) |-> p[k].postUrl]
Failures(out) == Cardinality({k \in 1..Len(out) : out[k] # "ok"})

C5_BrowserReleased ==
  /\ mainPc = "done" =>
       /\ closes >= 1
       /\ browserOpen = {}
       /\ \A b \in 1..launched : closeCalls[b] >= 1

C5_Witness ==
  /\ mainPc = "done" /\ launched = 1 /\ browserOpen = {} /\ closeCalls[1] = 1
  /\ pc = "thrown" /\ error = OpError("gotoProfile", DefaultRetries)

FieldOps == {"bio", "followers", "following", "postLinks", "profileData"}

\* C6: scrapeUserProfile is never aborted by the failure of a profile-field
\* extraction (bio, followers, following, post links).
C6_FieldFailureAbsorbed ==
  ~(pc = "thrown" /\ error.kind = "OpError" /\ error.op \in FieldOps)

LoginProbes == {"waitLogin", "loginWall"}
AfterProfileOps == {"waitHeader", "bio", "followers", "following", "profileData",
                    "postLinks", "gotoPost", "postData", "postType"}
TerminalError(e) ==
  \/ e.kind \in {"NotInitialized", "LoginRequired"}
  \/ e.kind = "OpError" /\ e.op = "gotoProfile"
\* the last page operation was the last allowed attempt of the profile navigation, and it failed
NavExhausted ==
  /\ lastOp.kind = "gotoProfile" /\ lastOp.res = "fail"
  /\ lastOp.n = IF variant = "retry" THEN DefaultRetries ELSE 1
\* the last page operation was a login-wall probe that found the prompt
PromptFound == lastOp.kind \in LoginProbes /\ lastOp.res = "found"

\* C7: a scrapeUserProfile that fails terminally (page not initialized,
\* profile navigation exhausted, login prompt found) throws, returns no
\* UserProfile, and issues no page operation after the failing step: no
\* field extraction, no post-link collection, no post navigation.
C7_TerminalFailureAborts ==
  /\ (pc = "thrown" /\ TerminalError(error)) =>
       profile = <<>> /\ posts = <<>> /\ issued \cap AfterProfileOps = {}
  /\ (pc # "idle" /\ page = 0) =>
       pc = "thrown" /\ error = NotInitialized /\ issued = {}
  /\ NavExhausted =>
       \/ pc = "thrown" /\ error = OpError("gotoProfile", lastOp.n)
       \/ pc = "navProfile" /\ rt.state = "thrown" /\ rt.thrown = OpError("gotoProfile", lastOp.n)
  /\ PromptFound => pc = "thrown" /\ error = LoginRequired

C7_Witness ==
  /\ pc = "thrown" /\ error = OpError("gotoProfile", DefaultRetries)
  /\ NavExhausted /\ issued = {"gotoProfile"}

\* C8: the login wall is probed at most once per invocation and only after a
\* profile navigation that succeeded; a probe that finds the prompt is the
\* last page operation and the invocation throws LoginRequired, which is
\* thrown for no other reason; and while isLoggedIn holds no probe is issued
\* and LoginRequired is not thrown.
C8_LoginWall ==
  /\ [](/\ loginChecks <= 1
        /\ lastOp.kind \in LoginProbes =>
             /\ "gotoProfile" \in issued
             /\ issued \subseteq {"gotoProfile"} \cup LoginProbes
        /\ PromptFound => pc = "thrown" /\ error = LoginRequired
        /\ (pc = "thrown" /\ error = LoginRequired) => PromptFound)
  /\ [][isLoggedIn =>
          /\ loginChecks' <= loginChecks
          /\ ~(pc # "thrown" /\ pc' = "thrown" /\ error' = LoginRequired)]_vars

C8_Witness ==
  /\ variant = "login" /\ ~isLoggedIn /\ initResult = "ok"
  /\ pc = "thrown" /\ error = LoginRequired /\ loginChecks = 1
  /\ lastOp.kind = "loginWall"

\* C9: page operations are issued only on an initialized session: while the
\* last initialize() has not succeeded (never called, or failed at any step)
\* no step of scrapeUserProfile issues a page operation.
C9_OnlyOnInitialized ==
  [][initResult # "ok" => (issued' \subseteq issued /\ lastOp' \in {lastOp, NoOp})]_vars

\* C10: close() on a scraper that never launched a browser does nothing,
\* and browser.close() is invoked at most once on every launched browser.
C10_CloseAtMostOnce ==
  /\ launched = 0 => browserOpen = {} /\ closeCalls = <<>>
  /\ \A b \in 1..launched : closeCalls[b] <= 1

\* the browser that owns this.page has been closed
PageClosed == page # 0 /\ page \notin browserOpen

\* C11: once close() has completed on a session, no later call on the
\* scraper issues an operation against the closed page: while the browser
\* owning this.page is closed, no page call is made.
C11_NoUseAfterClose ==
  [][PageClosed => Len(inflight') <= Len(inflight)]_vars

RetriedOps == {"gotoProfile", "bio", "followers", "following", "postLinks",
               "gotoPost", "postData", "postType"}

\* C12: in src/index.ts every navigation and page evaluation of
\* scrapeUserProfile, the post-type classification included, runs through
\* retryOperation: after a failed attempt that is not the last one allowed,
\* the operation is being retried (its retryOperation call is waiting or
\* trying again) and the failure has taken no other effect.
C12_EveryOperationRetried ==
  (variant = "retry" /\ lastOp.kind \in RetriedOps /\ lastOp.res = "fail"
     /\ lastOp.n < DefaultRetries)
    => rt.op = lastOp.kind /\ rt.state \in {"sleep", "try"}

\* C14: the followersCount and followingCount of a returned UserProfile are
\* the header texts expanded to numbers: "10.5k" gives 10500, "200" gives
\* 200, and a missing or empty text gives 0.
C14_CountsNormalized ==
  pc = "returned" =>
    /\ site.header.followers = <<"1", "0", ".", "5", "k">>
         => profile[1].followersCount = Num(10500)
    /\ site.header.following = <<"2", "0", "0">> => profile[1].followingCount = Num(200)
    /\ site.header.followers = <<>> => profile[1].followersCount = Num(0)
    /\ site.header.following = <<>> => profile[1].followingCount = Num(0)

\* C18: in a returned UserProfile no two entries of posts have the same
\* postUrl, whatever the posts grid contains, the same href more than once
\* included.
C18_PostUrlUnique ==
  pc = "returned" =>
    \A i, j \in 1..Len(profile[1].posts) :
      i # j => profile[1].posts[i].postUrl # profile[1].posts[j].postUrl

PostOps == {"gotoPost", "postData", "postType"}

\* C19: within one scrapeUserProfile invocation at most one page call is in
\* flight at any time; and while a call for post link k is in flight, the
\* processing of every link before k is over: k is the link the loop is at,
\* links 1..k-1 have each ended (record appended, or link skipped), and posts
\* holds exactly the records of those that succeeded.
C19_SequentialOperations ==
  /\ Len(inflight) <= 1
  /\ \A c \in 1..Len(inflight) :
       inflight[c].kind \in PostOps =>
         /\ inflight[c].link = idx
         /\ Len(outcome) = inflight[c].link - 1
         /\ Len(posts) = Len(outcome) - Failures(outcome)
         /\ lastOp.link <= inflight[c].link

C19_Witness ==
  /\ inflight = <<[kind |-> "gotoPost", link |-> 2]>>
  /\ outcome = <<"ok">> /\ Len(posts) = 1
  /\ lastOp.kind = "postType" /\ lastOp.link = 1

\* C20: a session is owned by one scrapeUserProfile invocation at a time:
\* the page calls of a second invocation on the same scraper do not come
\* between those of the first, so the post-detail read and the
\* classification behind every record are made while the page is at that
\* record's own postUrl.
C20_ExclusiveSession ==
  (lastOp.kind \in {"postData", "postType"} /\ lastOp.res = "ok")
    => lastOp.at = postLinks[lastOp.link]

\* the positions of scrapeUserProfile inside the per-post loop
LoopPcs == {"postNav", "postSettle", "postData", "postType", "postDelay"}
\* the links the loop goes over
LoopLinks == 1..Len(slice(postLinks, SampleSize))

\* C21: no post aborts the per-post loop: from inside the loop
\* scrapeUserProfile never throws, whatever failed for a link (navigation,
\* detail read, classification); every one of the first 4 collected links
\* that the loop has not navigated to yet is eventually navigated to; and
\* the invocation eventually returns a UserProfile.
C21_LoopNotAbortable ==
  /\ [][(pc \in LoopPcs) => (pc' # "thrown")]_vars
  /\ \A k \in 1..SampleSize :
       [](pc \in LoopPcs /\ k \in LoopLinks /\ (idx < k \/ (idx = k /\ pc = "postNav"))
            => <>(lastOp.kind = "gotoPost" /\ lastOp.link = k))
  /\ [](pc \in LoopPcs => <>(pc = "returned" /\ profile # <<>>))

C21_Witness ==
  /\ pc = "returned" /\ profile # <<>> /\ Len(postLinks) >= SampleSize
  /\ outcome = <<"navFailed", "dataFailed", "typeFailed", "ok">>
  /\ lastOp.link = SampleSize

\* C22: a delay is inserted between posts: the loop moves from a post link
\* to the next one only by the completion of the delay that follows the
\* earlier link, whether that link's post was appended or skipped.
C22_DelayBetweenPosts ==
  [][(idx >= 1 /\ idx' = idx + 1) => (pc = "postDelay")]_vars

\* C23: the wait for the profile header fails closed: when the header
\* element did not appear within the wait, the invocation has thrown, holds
\* no UserProfile and makes no page call to extract a field.
C23_HeaderWaitFailsClosed ==
  (lastOp.kind = "waitHeader" /\ lastOp.res = "fail")
    => (pc = "thrown" /\ profile = <<>> /\ awaiting = NoCall)

\* the page operations of one invocation in program order: those of the
\* profile, then those of one post link
OpOrder == <<"gotoProfile", "waitLogin", "loginWall", "waitHeader", "bio", "followers",
             "following", "profileData", "postLinks", "gotoPost", "postData", "postType">>
Rank(op) == CHOOSE r \in 1..Len(OpOrder) : OpOrder[r] = op
\* page operation b comes after a: a later link, a later operation of the
\* same link, or the next attempt of the same operation
Later(a, b) ==
  \/ b.link > a.link
  \/ b.link = a.link /\ Rank(b.kind) > Rank(a.kind) /\ b.n = 1
  \/ b.link = a.link /\ b.kind = a.kind /\ b.n = a.n + 1
Settles == awaiting # NoCall /\ awaiting' = NoCall

ReelSignal == IF variant = "retry" THEN input.dom.button ELSE input.dom.reelRoute

\* C13: on each of the 8 combinations of (video element, next control, reel
\* signal) the classifier answers video when there is a video element,
\* otherwise carousel when there is a next control, otherwise reel when the
\* reel signal is there, otherwise image.
C13_ClassifierPrecedence ==
  fn = "determinePostType" =>
    LET v == input.dom.video
        n == input.dom.next
        r == ReelSignal
    IN  /\ v => output = "video"
        /\ (~v /\ n) => output = "carousel"
        /\ (~v /\ ~n /\ r) => output = "reel"
        /\ (~v /\ ~n /\ ~r) => output = "image"

C13_Witness ==
  /\ fn = "determinePostType" /\ variant = "retry"
  /\ input.dom.video /\ input.dom.next /\ input.dom.button
  /\ output = "video"

\* the shape digits [. digits] [k|m|b] of a text once commas and blanks are
\* dropped and letters lower-cased
CountShape(s) ==
  LET c == toLowerCase(Without(s, {",", " "}))
      n == DigitRun(c, 1)
      dot == n + 1 <= Len(c) /\ c[n + 1] = "."
      f == IF dot THEN DigitRun(c, n + 2) ELSE 0
      body == IF dot THEN n + 1 + f ELSE n
      unit == Len(c) = body + 1 /\ c[Len(c)] \in {"k", "m", "b"}
  IN  [int |-> n, dot |-> dot, frac |-> f,
       whole |-> Len(c) = body \/ unit,
       scale |-> IF ~unit THEN 0
                 ELSE CASE c[Len(c)] = "k" -> 3 [] c[Len(c)] = "m" -> 6 [] OTHER -> 9,
       digits |-> DigitsValue(c, 1, n) * Pow10(f) + DigitsValue(c, n + 2, n + 1 + f)]

\* a valid count string: a number with an integer part, an optional unit,
\* commas only between digits of the integer part, blanks only around it
ValidCount(s) ==
  LET sh == CountShape(s)
  IN  /\ sh.whole /\ sh.int >= 1 /\ (sh.dot => sh.frac >= 1)
      /\ \A k \in 1..Len(s) :
           s[k] = "," => /\ 1 < k /\ k < Len(s)
                         /\ s[k - 1] \in Digits /\ s[k + 1] \in Digits
                         /\ \A j \in 1..k : s[j] # "."
      /\ \A i, j, k \in 1..Len(s) : (i < j /\ j < k /\ s[j] = " ") => (s[i] = " " \/ s[k] = " ")
\* the number a valid count string denotes
CountValue(s) == Norm(CountShape(s).digits, CountShape(s).scale - CountShape(s).frac)
\* a text that is a count under no reading: even with commas and blanks
\* anywhere and a bare "1." or ".5" accepted as numbers, it has not the shape
NotACount(s) ==
  LET sh == CountShape(s)
  IN  ~(sh.whole /\ (sh.int >= 1 \/ sh.frac >= 1))

CountParsers == {"parseLikeCount", "parseCount"}

\* C15: on every valid count string the count parser returns the number
\* times the factor of its unit (k 1000, m 1000000, b 1000000000, 1 without
\* a unit): "0" gives 0, "1,234" gives 1234, "12.3k" gives 12300, "2m" gives
\* 2000000.
C15_ValidCountsScaled ==
  (fn \in CountParsers /\ ValidCount(input.text)) => output = CountValue(input.text)

\* C16: on every text that is not a count ("", "abc", "k", ".", "1.2.3",
\* "1,234 likes") the count parser returns exactly 0: never NaN and never
\* another number.
C16_InvalidCountsZero ==
  (fn \in CountParsers /\ NotACount(input.text)) => output = Num(0)

\* the positions of s where a "#token" starts: a "#" with a word character next
TagStarts(s) == {k \in 1..(Len(s) - 1) : s[k] = "#" /\ IsWordChar(s[k + 1])}
\* the "#token" that starts at k: the "#" and every word character up to
\* the first character that is not one
TagAt(s, k) ==
  LET end == CHOOSE m \in (k + 1)..Len(s) :
               /\ \A j \in (k + 1)..m : IsWordChar(s[j])
               /\ m = Len(s) \/ ~IsWordChar(s[m + 1])
  IN  SubSeq(s, k, end)

\* C17: extractHashtags returns the "#token" occurrences of its input, all
\* of them, in order of appearance and with repetitions kept ("#a #b #a"
\* gives "#a", "#b", "#a"), and the empty sequence when there is none.
C17_HashtagsInOrder ==
  fn = "extractHashtags" =>
    LET s == input.text
        starts == TagStarts(s)
    IN  /\ Len(output) = Cardinality(starts)
        /\ \A k \in starts : output[Cardinality({j \in starts : j <= k})] = TagAt(s, k)
        /\ starts = {} => output = <<>>

C17_Witness ==
  /\ fn = "extractHashtags"
  /\ input.text = <<"#", "a", " ", "#", "b", " ", "#", "a">>
  /\ output = << <<"#", "a">>, <<"#", "b">>, <<"#", "a">> >>

====
